---------------------------- MODULE Spec2Model ----------------------------
(***************************************************************************)
(* A model of the k-d tree of projects/p3/kdtree.hpp                       *)
(* (KDTree<std::tuple<KeyTypes...>, ValueType>).                           *)
(*                                                                         *)
(* The heap is the function `nodes` from the addresses of the live Node    *)
(* objects to their fields; `root` and `treeSize` are the two data members *)
(* of the tree.  A key is a tuple of KeySize components; the code's        *)
(* std::get<DIM>(key), DIM in 0..KeySize-1, is key[DIM + 1] here.          *)
(* `call` records the last public operation, its arguments and its result  *)
(* (for insert, which returns void, the result of insert<0>).  `that` is a *)
(* second KDTree object on the same heap, the other side of a copy.        *)
(***************************************************************************)
EXTENDS Integers, Sequences, FiniteSets, TLC

VARIABLES nodes, root, treeSize, call, that

vars == <<nodes, root, treeSize, call, that>>

KeySize == 2

MaxVal == 1

MaxNodes == 3

MaxLen == 3

NULL == 0

\* KeyTypes: every component type is instantiated with a two-valued ordered
\* type (as bool is, false < true)
Coord == {0, 1}

Key == [1..KeySize -> Coord]

Value == 0..MaxVal

Data == [first : Key, second : Value]

(***************************************************************************)
(* struct Node and `new Node(key, value, parent)`.                         *)
(***************************************************************************)
Node(key, value, parent) ==
    [key |-> key, value |-> value, parent |-> parent, left |-> NULL, right |-> NULL]

\* The address handed out by `new`: the lowest address that is not live.
NewNode(h) ==
    CHOOSE i \in 1..(Cardinality(DOMAIN h) + 1) :
        /\ i \notin DOMAIN h
        /\ \A j \in 1..(i - 1) : j \in DOMAIN h

DIM_NEXT(DIM) == (DIM + 1) % KeySize

(***************************************************************************)
(* Comparisons.  `cmp` is the Compare template argument: "less" for        *)
(* std::less<>, "greater" for std::greater<>.                              *)
(***************************************************************************)
RECURSIVE TupleLessFrom(_, _, _)
TupleLessFrom(a, b, i) ==
    IF i > KeySize THEN FALSE
    ELSE IF a[i] < b[i] THEN TRUE
    ELSE IF b[i] < a[i] THEN FALSE
    ELSE TupleLessFrom(a, b, i + 1)

\* operator< of std::tuple: lexicographic, components in index order
TupleLess(a, b) == TupleLessFrom(a, b, 1)

CompareComponent(cmp, x, y) == IF cmp = "less" THEN x < y ELSE x > y

CompareTuple(cmp, a, b) == IF cmp = "less" THEN TupleLess(a, b) ELSE TupleLess(b, a)

compareKey(DIM, cmp, a, b) ==
    IF a[DIM + 1] # b[DIM + 1]
    THEN CompareComponent(cmp, a[DIM + 1], b[DIM + 1])
    ELSE CompareTuple(cmp, a, b)

compareNode(h, DIM, cmp, a, b) ==
    IF a = NULL THEN b
    ELSE IF b = NULL THEN a
    ELSE IF compareKey(DIM, cmp, h[a].key, h[b].key) THEN a ELSE b

\* strictLessKey with <= for <: a key level with the node goes to the left
strictLessKey_orEqual(DIM, cmp, a, b) ==
    IF cmp = "less" THEN a[DIM + 1] <= b[DIM + 1] ELSE a[DIM + 1] >= b[DIM + 1]

strictLessKey(DIM, cmp, a, b) == CompareComponent(cmp, a[DIM + 1], b[DIM + 1])

compareData(DIM, a, b) == compareKey(DIM, "less", a.first, b.first)

(***************************************************************************)
(* find<DIM>(key, node)                                                    *)
(***************************************************************************)
RECURSIVE find(_, _, _, _)
find(h, DIM, key, node) ==
    IF node = NULL THEN NULL
    ELSE IF h[node].key = key THEN node
    ELSE IF strictLessKey(DIM, "less", key, h[node].key)
         THEN find(h, DIM_NEXT(DIM), key, h[node].left)
         ELSE find(h, DIM_NEXT(DIM), key, h[node].right)

\* insert that counts an insert of a present key as a new entry
RECURSIVE insert_countsUpsert(_, _, _, _, _, _, _)
insert_countsUpsert(t, DIM, key, value, node, parent, slot) ==
    IF node = NULL THEN
        LET n  == NewNode(t.nodes)
            h1 == (n :> Node(key, value, parent)) @@ t.nodes
            h2 == IF slot = "root" THEN h1 ELSE [h1 EXCEPT ![parent][slot] = n]
        IN  [t   |-> [nodes    |-> h2,
                      root     |-> IF slot = "root" THEN n ELSE t.root,
                      treeSize |-> t.treeSize + 1],
             ret |-> TRUE]
    ELSE IF t.nodes[node].key = key THEN
        [t   |-> [t EXCEPT !.nodes[node].value = value, !.treeSize = t.treeSize + 1],
         ret |-> FALSE]
    ELSE IF strictLessKey(DIM, "less", key, t.nodes[node].key)
         THEN insert_countsUpsert(t, DIM_NEXT(DIM), key, value, t.nodes[node].left, node, "left")
         ELSE insert_countsUpsert(t, DIM_NEXT(DIM), key, value, t.nodes[node].right, node, "right")

(***************************************************************************)
(* insert<DIM>(key, value, node, parent).  `node` is a reference to a      *)
(* pointer: `slot` names the member it refers to ("root" of the tree,      *)
(* "left" or "right" of `parent`).  t is the tree [nodes, root, treeSize]. *)
(***************************************************************************)
RECURSIVE insert(_, _, _, _, _, _, _)
insert(t, DIM, key, value, node, parent, slot) ==
    IF node = NULL THEN
        LET n  == NewNode(t.nodes)
            h1 == (n :> Node(key, value, parent)) @@ t.nodes
            h2 == IF slot = "root" THEN h1 ELSE [h1 EXCEPT ![parent][slot] = n]
        IN  [t   |-> [nodes    |-> h2,
                      root     |-> IF slot = "root" THEN n ELSE t.root,
                      treeSize |-> t.treeSize + 1],
             ret |-> TRUE]
    ELSE IF t.nodes[node].key = key THEN
        [t |-> [t EXCEPT !.nodes[node].value = value], ret |-> FALSE]
    ELSE IF strictLessKey(DIM, "less", key, t.nodes[node].key)
         THEN insert(t, DIM_NEXT(DIM), key, value, t.nodes[node].left, node, "left")
         ELSE insert(t, DIM_NEXT(DIM), key, value, t.nodes[node].right, node, "right")

(***************************************************************************)
(* findMin<DIM_CMP, DIM>(node), findMax<DIM_CMP, DIM>(node)                *)
(***************************************************************************)
RECURSIVE findMin(_, _, _, _)
findMin(h, DIM_CMP, DIM, node) ==
    IF node = NULL THEN NULL
    ELSE LET min0 == findMin(h, DIM_CMP, DIM_NEXT(DIM), h[node].left)
             min1 == IF DIM_CMP # DIM
                     THEN compareNode(h, DIM_CMP, "less", min0,
                                      findMin(h, DIM_CMP, DIM_NEXT(DIM), h[node].right))
                     ELSE min0
         IN  compareNode(h, DIM_CMP, "less", min1, node)

\* findMax written as findMin is: the left subtree always, the right one
\* only off the compared dimension
RECURSIVE findMax_leftFirst(_, _, _, _)
findMax_leftFirst(h, DIM_CMP, DIM, node) ==
    IF node = NULL THEN NULL
    ELSE LET max0 == findMax_leftFirst(h, DIM_CMP, DIM_NEXT(DIM), h[node].left)
             max1 == IF DIM_CMP # DIM
                     THEN compareNode(h, DIM_CMP, "greater", max0,
                                      findMax_leftFirst(h, DIM_CMP, DIM_NEXT(DIM), h[node].right))
                     ELSE max0
         IN  compareNode(h, DIM_CMP, "greater", max1, node)

RECURSIVE findMax(_, _, _, _)
findMax(h, DIM_CMP, DIM, node) ==
    IF node = NULL THEN NULL
    ELSE LET max0 == findMax(h, DIM_CMP, DIM_NEXT(DIM), h[node].right)
             max1 == IF DIM_CMP # DIM
                     THEN compareNode(h, DIM_CMP, "greater", max0,
                                      findMax(h, DIM_CMP, DIM_NEXT(DIM), h[node].left))
                     ELSE max0
         IN  compareNode(h, DIM_CMP, "greater", max1, node)

RECURSIVE findMinDynamic(_, _, _, _)
findMinDynamic(h, rt, DIM, dim) ==
    LET d == IF dim >= KeySize THEN dim % KeySize ELSE dim
    IN  IF d = DIM THEN findMin(h, DIM, 0, rt)
        ELSE findMinDynamic(h, rt, DIM_NEXT(DIM), d)

RECURSIVE findMaxDynamic(_, _, _, _)
findMaxDynamic(h, rt, DIM, dim) ==
    LET d == IF dim >= KeySize THEN dim % KeySize ELSE dim
    IN  IF d = DIM THEN findMax(h, DIM, 0, rt)
        ELSE findMaxDynamic(h, rt, DIM_NEXT(DIM), d)

(***************************************************************************)
(* erase<DIM>(node, key): the tree after the call and the returned         *)
(* pointer.  `delete node` removes the address from the heap.  The key     *)
(* argument is read only before the matched node is overwritten or         *)
(* deleted, so it is passed here by value.                                 *)
(***************************************************************************)
RECURSIVE erase(_, _, _, _)
erase(t, DIM, node, key) ==
    IF node = NULL THEN [t |-> t, ret |-> NULL]
    ELSE
    LET n == t.nodes[node] IN
    IF key = n.key THEN
        IF n.left = NULL /\ n.right = NULL THEN
            LET size == t.treeSize - 1
                h    == [i \in (DOMAIN t.nodes) \ {node} |-> t.nodes[i]]
            IN  [t   |-> [nodes    |-> h,
                          root     |-> IF size = 0 THEN NULL ELSE t.root,
                          treeSize |-> size],
                 ret |-> NULL]
        ELSE IF n.right # NULL THEN
            LET minNode == findMin(t.nodes, DIM, DIM_NEXT(DIM), n.right)
                mk      == t.nodes[minNode].key
                mv      == t.nodes[minNode].value
                t1      == [t EXCEPT !.nodes[node].key = mk, !.nodes[node].value = mv]
                r       == erase(t1, DIM_NEXT(DIM), n.right, mk)
            IN  [t |-> [r.t EXCEPT !.nodes[node].right = r.ret], ret |-> node]
        ELSE
            LET maxNode == findMax(t.nodes, DIM, DIM_NEXT(DIM), n.left)
                mk      == t.nodes[maxNode].key
                mv      == t.nodes[maxNode].value
                t1      == [t EXCEPT !.nodes[node].key = mk, !.nodes[node].value = mv]
                r       == erase(t1, DIM_NEXT(DIM), n.left, mk)
            IN  [t |-> [r.t EXCEPT !.nodes[node].left = r.ret], ret |-> node]
    ELSE IF strictLessKey(DIM, "less", key, n.key) THEN
        LET r == erase(t, DIM_NEXT(DIM), n.left, key)
        IN  [t |-> [r.t EXCEPT !.nodes[node].left = r.ret], ret |-> node]
    ELSE
        LET r == erase(t, DIM_NEXT(DIM), n.right, key)
        IN  [t |-> [r.t EXCEPT !.nodes[node].right = r.ret], ret |-> node]

\* eraseDynamic<DIM>(node, dim)
RECURSIVE eraseDynamic(_, _, _, _)
eraseDynamic(t, DIM, node, dim) ==
    LET d == IF dim >= KeySize THEN dim % KeySize ELSE dim
    IN  IF d = DIM THEN erase(t, DIM, node, t.nodes[node].key)
        ELSE eraseDynamic(t, DIM_NEXT(DIM), node, d)

(***************************************************************************)
(* Iterator: a cursor is the node it references, NULL for end().           *)
(***************************************************************************)
\* while (node->left) node = node->left;
RECURSIVE leftMost(_, _)
leftMost(h, node) == IF h[node].left # NULL THEN leftMost(h, h[node].left) ELSE node

\* while (node->right) node = node->right;
RECURSIVE rightMost(_, _)
rightMost(h, node) == IF h[node].right # NULL THEN rightMost(h, h[node].right) ELSE node

\* do { temp = node; node = node->parent; } while (node && node->left != temp);
RECURSIVE climbToLeftParent(_, _)
climbToLeftParent(h, temp) ==
    LET node == h[temp].parent
    IN  IF node # NULL /\ h[node].left # temp THEN climbToLeftParent(h, node) ELSE node

\* the upward loop of decrement with the test of increment (node->left)
RECURSIVE climbToRightParent_testsLeft(_, _)
climbToRightParent_testsLeft(h, temp) ==
    LET node == h[temp].parent
    IN  IF node # NULL /\ h[node].left # temp
        THEN climbToRightParent_testsLeft(h, node) ELSE node

\* do { temp = node; node = node->parent; } while (node && node->right != temp);
RECURSIVE climbToRightParent(_, _)
climbToRightParent(h, temp) ==
    LET node == h[temp].parent
    IN  IF node # NULL /\ h[node].right # temp THEN climbToRightParent(h, node) ELSE node

\* KDTree::begin(), KDTree::end()
begin(h, rt) == IF rt = NULL THEN NULL ELSE leftMost(h, rt)

end == NULL

\* increment that steps to the right child without descending to its left-most
\* node
increment_noDescent(h, node) ==
    IF node = NULL THEN NULL
    ELSE IF h[node].right # NULL THEN h[node].right
    ELSE climbToLeftParent(h, node)

\* Iterator::increment()
increment(h, node) ==
    IF node = NULL THEN NULL
    ELSE IF h[node].right # NULL THEN leftMost(h, h[node].right)
    ELSE climbToLeftParent(h, node)

\* Iterator::decrement(), on a cursor of the tree of root rt
decrement(h, rt, node) ==
    IF node = NULL THEN (IF rt # NULL THEN rightMost(h, rt) ELSE NULL)
    ELSE IF h[node].left # NULL THEN rightMost(h, h[node].left)
    ELSE IF node = begin(h, rt) THEN node
    ELSE climbToRightParent(h, node)

\* size_t depth = 0; auto temp = node->parent; while (temp) { ... ++depth; }
RECURSIVE depthOf(_, _)
depthOf(h, node) ==
    IF h[node].parent = NULL THEN 0 ELSE 1 + depthOf(h, h[node].parent)

(***************************************************************************)
(* Bulk construction: KDTree(std::vector<std::pair<Key, Value>> v).        *)
(***************************************************************************)
\* std::stable_sort(v.begin(), v.end(), compareData<DIM>): each element goes
\* behind the elements that do not come after it, equal ones keep their order
RECURSIVE stable_sort(_, _)
stable_sort(DIM, v) ==
    IF v = <<>> THEN <<>>
    ELSE LET s == stable_sort(DIM, SubSeq(v, 1, Len(v) - 1))
             x == v[Len(v)]
             p == Cardinality({i \in 1..Len(s) : ~compareData(DIM, x, s[i])})
         IN  SubSeq(s, 1, p) \o <<x>> \o SubSeq(s, p + 1, Len(s))

\* unique that keeps the last element of every run
RECURSIVE unique_keepsLast(_)
unique_keepsLast(s) ==
    IF Len(s) <= 1 THEN s
    ELSE LET u == unique_keepsLast(SubSeq(s, 1, Len(s) - 1))
             x == s[Len(s)]
         IN  IF u[Len(u)].first = x.first
             THEN Append(SubSeq(u, 1, Len(u) - 1), x)
             ELSE Append(u, x)

\* std::unique with the lambda a.first == b.first: of every run of equal
\* keys the first element of the range is kept
RECURSIVE unique(_)
unique(s) ==
    IF Len(s) <= 1 THEN s
    ELSE LET u == unique(SubSeq(s, 1, Len(s) - 1))
             x == s[Len(s)]
         IN  IF u[Len(u)].first = x.first THEN u ELSE Append(u, x)

\* the range v.rbegin() .. v.rend()
Reverse(s) == [i \in 1..Len(s) |-> s[Len(s) + 1 - i]]

\* std::nth_element(v.begin(), v.begin() + n, v.end(), compareData<DIM>).
\* The standard fixes the element at position n and the two sets on either
\* side of it, not the order inside them.  The keys of v are distinct here and
\* compareData<DIM> is a total order on distinct keys, so the recursive calls,
\* which partition again, build the same tree for every permitted order; the
\* sorted sequence is one of them.
nth_element(DIM, v, n) == stable_sort(DIM, v)

EmptyHeap == [i \in {} |-> NULL]

\* KDTree_helper with the upper median, v.size() / 2, as the subtree root
RECURSIVE KDTree_helper_upperMedian(_, _, _, _)
KDTree_helper_upperMedian(h, DIM, v, parent) ==
    IF v = <<>> THEN [nodes |-> h, ret |-> NULL]
    ELSE LET m     == Len(v) \div 2
             s     == nth_element(DIM, v, m)
             now   == NewNode(h)
             h1    == (now :> Node(s[m + 1].first, s[m + 1].second, parent)) @@ h
             left  == SubSeq(s, 1, m)
             right == SubSeq(s, m + 2, Len(s))
             l     == KDTree_helper_upperMedian(h1, DIM_NEXT(DIM), left, now)
             h2    == [l.nodes EXCEPT ![now].left = l.ret]
             r     == KDTree_helper_upperMedian(h2, DIM_NEXT(DIM), right, now)
         IN  [nodes |-> [r.nodes EXCEPT ![now].right = r.ret], ret |-> now]

RECURSIVE KDTree_helper(_, _, _, _)
KDTree_helper(h, DIM, v, parent) ==
    IF v = <<>> THEN [nodes |-> h, ret |-> NULL]
    ELSE LET m     == (Len(v) - 1) \div 2
             s     == nth_element(DIM, v, m)
             now   == NewNode(h)
             h1    == (now :> Node(s[m + 1].first, s[m + 1].second, parent)) @@ h
             left  == SubSeq(s, 1, m)
             right == SubSeq(s, m + 2, Len(s))
             l     == KDTree_helper(h1, DIM_NEXT(DIM), left, now)
             h2    == [l.nodes EXCEPT ![now].left = l.ret]
             r     == KDTree_helper(h2, DIM_NEXT(DIM), right, now)
         IN  [nodes |-> [r.nodes EXCEPT ![now].right = r.ret], ret |-> now]

\* the constructor with treeSize taken before the duplicates are removed
KDTree_sizeOfInput(v) ==
    LET s == stable_sort(0, v)
        u == Reverse(unique(Reverse(s)))
        r == KDTree_helper(EmptyHeap, 0, u, NULL)
    IN  [nodes |-> r.nodes, root |-> r.ret, treeSize |-> Len(v)]

\* The constructor.  v.assign(it.base(), v.end()) keeps the tail of v that
\* std::unique on the reversed range left in place (the copy runs front to
\* back onto the front of the same vector, in libstdc++ and in libc++).
KDTree(v) ==
    LET s == stable_sort(0, v)
        u == Reverse(unique(Reverse(s)))
        r == KDTree_helper(EmptyHeap, 0, u, NULL)
    IN  [nodes |-> r.nodes, root |-> r.ret, treeSize |-> Len(u)]

(***************************************************************************)
(* Copying and destruction.                                                *)
(***************************************************************************)
\* copyAll that hands back the nodes of the source
copyAll_sharesNodes(h, rt, parent) == [nodes |-> h, ret |-> rt]

\* copyAll(root, parent): the heap with the copy, and the root of the copy
RECURSIVE copyAll(_, _, _)
copyAll(h, rt, parent) ==
    IF rt = NULL THEN [nodes |-> h, ret |-> NULL]
    ELSE LET now == NewNode(h)
             h1  == (now :> Node(h[rt].key, h[rt].value, parent)) @@ h
             l   == copyAll(h1, h[rt].left, now)
             h2  == [l.nodes EXCEPT ![now].left = l.ret]
             r   == copyAll(h2, h[rt].right, now)
         IN  [nodes |-> [r.nodes EXCEPT ![now].right = r.ret], ret |-> now]

\* deleteAll(root): the heap without the nodes of the subtree
RECURSIVE deleteAll(_, _)
deleteAll(h, rt) ==
    IF rt = NULL THEN h
    ELSE LET h1 == deleteAll(h, h[rt].left)
             h2 == deleteAll(h1, h[rt].right)
         IN  [i \in (DOMAIN h2) \ {rt} |-> h2[i]]

\* KDTree(const KDTree &that): the new object copied from src
copyConstruct(h, src) ==
    LET c == copyAll(h, src.root, NULL)
    IN  [nodes |-> c.nodes, root |-> c.ret, treeSize |-> src.treeSize]

\* operator=(const KDTree &that) on the object self, with that = src
copyAssign(h, self, src, sameObject) ==
    IF sameObject THEN [nodes |-> h, root |-> self.root, treeSize |-> self.treeSize]
    ELSE LET h1 == deleteAll(h, self.root)
             c  == copyAll(h1, src.root, NULL)
         IN  [nodes |-> c.nodes, root |-> c.ret, treeSize |-> src.treeSize]

(***************************************************************************)
(* The state machine.                                                      *)
(***************************************************************************)
Tree == [nodes |-> nodes, root |-> root, treeSize |-> treeSize]

Inputs == UNION {[1..n -> Data] : n \in 0..MaxLen}

\* `it` is the node of the cursor argument of erase(Iterator), NULL for end()
\* and for the operations that take no cursor
Call(op, key, value, v, ret) ==
    [op |-> op, key |-> key, value |-> value, v |-> v, ret |-> ret, it |-> NULL]

\* no second tree constructed yet
NoTree == [constructed |-> FALSE, root |-> NULL, treeSize |-> 0]

NoKey == <<>>

\* KDTree() = default, with the member initialisers root = nullptr, treeSize = 0
InitDefault ==
    /\ nodes = EmptyHeap
    /\ root = NULL
    /\ treeSize = 0
    /\ call = Call("default", NoKey, 0, <<>>, FALSE)
    /\ that = NoTree

InitBulk ==
    \E v \in Inputs :
        LET t == KDTree(v)
        IN  /\ nodes = t.nodes
            /\ root = t.root
            /\ treeSize = t.treeSize
            /\ call = Call("bulk", NoKey, 0, v, FALSE)
            /\ that = NoTree

Init == InitDefault \/ InitBulk

\* Iterator find(const Key &key): the node of the cursor, NULL for end()
Find(key) == find(nodes, 0, key, root)

FindMin(dim) == findMinDynamic(nodes, root, 0, dim)

FindMax(dim) == findMaxDynamic(nodes, root, 0, dim)

\* void insert(const Key &key, const Value &value)
Insert(key, value) ==
    /\ treeSize < MaxNodes \/ Find(key) # NULL
    /\ LET r == insert(Tree, 0, key, value, root, NULL, "root")
       IN  /\ nodes' = r.t.nodes
           /\ root' = r.t.root
           /\ treeSize' = r.t.treeSize
           /\ call' = Call("insert", key, value, <<>>, r.ret)
           /\ UNCHANGED that

\* the result test with >= for >
EraseResult_orEqual(prevSize, size) == prevSize >= size

EraseResult(prevSize, size) == prevSize > size

\* bool erase(const Key &key)
Erase(key) ==
    LET prevSize == treeSize
        r        == erase(Tree, 0, root, key)
    IN  /\ nodes' = r.t.nodes
        /\ root' = r.t.root
        /\ treeSize' = r.t.treeSize
        /\ call' = Call("erase", key, 0, <<>>, EraseResult(prevSize, r.t.treeSize))
        /\ UNCHANGED that

\* every link that can be followed from n ends at a live node
RECURSIVE Live(_, _)
Live(h, n) ==
    \/ n = NULL
    \/ n \in DOMAIN h /\ Live(h, h[n].left) /\ Live(h, h[n].right)

RECURSIVE Subtree(_, _)
Subtree(h, n) ==
    IF n = NULL THEN {} ELSE {n} \cup Subtree(h, h[n].left) \cup Subtree(h, h[n].right)

\* the cursors a caller can hold: end() and one per node of the tree
Cursors == {end} \cup Subtree(nodes, root)

\* Iterator erase(Iterator it).  The result of eraseDynamic is dropped.
EraseIt(it) ==
    IF it = end
    THEN /\ call' = [Call("eraseIt", NoKey, 0, <<>>, it) EXCEPT !.it = it]
         /\ UNCHANGED <<nodes, root, treeSize, that>>
    ELSE LET node  == it
             ret   == IF nodes[it].left = NULL /\ nodes[it].right = NULL
                      THEN nodes[it].parent ELSE it
             depth == depthOf(nodes, node)
             r     == eraseDynamic(Tree, 0, node, depth % KeySize)
         IN  /\ nodes' = r.t.nodes
             /\ root' = r.t.root
             /\ treeSize' = r.t.treeSize
             /\ call' = [Call("eraseIt", nodes[it].key, 0, <<>>, ret) EXCEPT !.it = it]
             /\ UNCHANGED that

\* the second tree as a tree on the heap
That == [nodes |-> nodes, root |-> that.root, treeSize |-> that.treeSize]

\* KDTree that(*this)
CopyConstruct ==
    /\ ~that.constructed
    /\ LET c == copyConstruct(nodes, Tree)
       IN  /\ nodes' = c.nodes
           /\ that' = [constructed |-> TRUE, root |-> c.root, treeSize |-> c.treeSize]
           /\ call' = Call("copy", NoKey, 0, <<>>, FALSE)
           /\ UNCHANGED <<root, treeSize>>

\* that = *this
AssignTo ==
    /\ that.constructed
    /\ LET c == copyAssign(nodes, That, Tree, FALSE)
       IN  /\ nodes' = c.nodes
           /\ that' = [constructed |-> TRUE, root |-> c.root, treeSize |-> c.treeSize]
           /\ call' = Call("assignTo", NoKey, 0, <<>>, FALSE)
           /\ UNCHANGED <<root, treeSize>>

\* *this = that
AssignFrom ==
    /\ that.constructed
    /\ LET c == copyAssign(nodes, Tree, That, FALSE)
       IN  /\ nodes' = c.nodes
           /\ root' = c.root
           /\ treeSize' = c.treeSize
           /\ call' = Call("assignFrom", NoKey, 0, <<>>, FALSE)
           /\ UNCHANGED that

\* *this = *this
AssignSelf ==
    LET c == copyAssign(nodes, Tree, Tree, TRUE)
    IN  /\ nodes' = c.nodes
        /\ root' = c.root
        /\ treeSize' = c.treeSize
        /\ call' = Call("assignSelf", NoKey, 0, <<>>, FALSE)
        /\ UNCHANGED that

\* that.insert(key, value)
InsertThat(key, value) ==
    /\ that.constructed
    /\ that.treeSize < MaxNodes \/ find(nodes, 0, key, that.root) # NULL
    /\ LET r == insert(That, 0, key, value, that.root, NULL, "root")
       IN  /\ nodes' = r.t.nodes
           /\ that' = [constructed |-> TRUE, root |-> r.t.root, treeSize |-> r.t.treeSize]
           /\ call' = Call("insertThat", key, value, <<>>, r.ret)
           /\ UNCHANGED <<root, treeSize>>

\* that.erase(key)
EraseThat(key) ==
    /\ that.constructed
    /\ LET prevSize == that.treeSize
           r        == erase(That, 0, that.root, key)
       IN  /\ nodes' = r.t.nodes
           /\ that' = [constructed |-> TRUE, root |-> r.t.root, treeSize |-> r.t.treeSize]
           /\ call' = Call("eraseThat", key, 0, <<>>, EraseResult(prevSize, r.t.treeSize))
           /\ UNCHANGED <<root, treeSize>>

Next ==
    \/ \E key \in Key, value \in Value : Insert(key, value)
    \/ \E key \in Key : Erase(key)

Spec == Init /\ [][Next]_vars

\* a tree that only insert has touched
NextInsert == \E key \in Key, value \in Value : Insert(key, value)

SpecInsert == InitDefault /\ [][NextInsert]_vars

\* a tree built by inserts, then one erase
NextInsertErase ==
    \/ call.op # "erase" /\ \E key \in Key, value \in Value : Insert(key, value)
    \/ call.op # "erase" /\ \E key \in Key : Erase(key)

SpecInsertErase == InitDefault /\ [][NextInsertErase]_vars

\* the subtree of n as a value: key, value, left subtree, right subtree
RECURSIVE Shape(_, _)
Shape(h, n) ==
    IF n = NULL THEN <<>>
    ELSE <<h[n].key, h[n].value, Shape(h, h[n].left), Shape(h, h[n].right)>>

\* the two trees are copies of each other
SameTrees == that.constructed /\ Shape(nodes, root) = Shape(nodes, that.root)

\* Two trees: the first one is built alone, then copied to the second; the
\* trees are copied in both directions, and insert and erase(key) are called
\* on either of two trees that are copies of each other.
NextCopy ==
    \/ /\ ~that.constructed \/ SameTrees
       /\ \E key \in Key, value \in Value : Insert(key, value)
    \/ /\ ~that.constructed \/ SameTrees
       /\ \E key \in Key : Erase(key)
    \/ CopyConstruct
    \/ AssignTo
    \/ AssignFrom
    \/ AssignSelf
    \/ SameTrees /\ \E key \in Key, value \in Value : InsertThat(key, value)
    \/ SameTrees /\ \E key \in Key : EraseThat(key)

SpecCopy == Init /\ [][NextCopy]_vars

\* insert, erase(key) and erase(cursor).  An operation on a tree with a link
\* to a released node reads released memory; the machine is followed up to
\* such a tree and not beyond it.
NextCursor ==
    \/ Live(nodes, root) /\ \E key \in Key, value \in Value : Insert(key, value)
    \/ Live(nodes, root) /\ \E key \in Key : Erase(key)
    \/ Live(nodes, root) /\ \E it \in Cursors : EraseIt(it)

SpecCursor == Init /\ [][NextCursor]_vars

(***************************************************************************)
(* What the properties speak about.                                        *)
(***************************************************************************)
\* the tree invariant at node n of active dimension DIM, and below it
RECURSIVE InvariantAt(_, _, _)
InvariantAt(h, n, DIM) ==
    \/ n = NULL
    \/ /\ \A m \in Subtree(h, h[n].left)  : h[m].key[DIM + 1] < h[n].key[DIM + 1]
       /\ \A m \in Subtree(h, h[n].right) : h[m].key[DIM + 1] >= h[n].key[DIM + 1]
       /\ InvariantAt(h, h[n].left, DIM_NEXT(DIM))
       /\ InvariantAt(h, h[n].right, DIM_NEXT(DIM))

TreeInvariant(h, rt) == InvariantAt(h, rt, 0)

KeysHeld(h, rt) == {h[n].key : n \in Subtree(h, rt)}

Entries(h, rt) == {<<h[n].key, h[n].value>> : n \in Subtree(h, rt)}

NodesWithKey(h, rt, key) == {n \in Subtree(h, rt) : h[n].key = key}

\* find(key) in the state after the step
FindNext(key) == find(nodes', 0, key, root')

InputKeys(v) == {v[i].first : i \in 1..Len(v)}

LastOccurrence(v, key) ==
    CHOOSE i \in 1..Len(v) :
        v[i].first = key /\ \A j \in (i + 1)..Len(v) : v[j].first # key

(***************************************************************************)
(* C1.  Starting from the empty tree, the tree invariant holds after every *)
(* insert: below every node of active dimension dim, the keys of the left  *)
(* subtree are strictly less on dim and those of the right subtree are not *)
(* less.  (Checked under SpecInsert.)                                      *)
(***************************************************************************)
C1_InsertKeepsInvariant == TreeInvariant(nodes, root)

\* three inserts, the second key level with the root on dimension 0
C1_Witness ==
    /\ call.op = "insert"
    /\ treeSize >= 3
    /\ nodes[root].right # NULL
    /\ nodes[nodes[root].right].key[1] = nodes[root].key[1]

(***************************************************************************)
(* C2.  erase(key) preserves the tree invariant: an erase that starts from *)
(* a tree satisfying the invariant ends in one that satisfies it.          *)
(***************************************************************************)
C2_ErasePreservesInvariant ==
    [][(call'.op = "erase" /\ TreeInvariant(nodes, root))
          => TreeInvariant(nodes', root')]_vars

(***************************************************************************)
(* C3.  The tree that bulk construction builds satisfies the tree          *)
(* invariant.                                                              *)
(***************************************************************************)
C3_BulkInvariant == call.op = "bulk" => TreeInvariant(nodes, root)

(***************************************************************************)
(* C4.  Upsert: after insert(key, value), find(key) is a node holding      *)
(* value; if find located the key before, only that node's value changed   *)
(* and size() is unchanged, else size() grew by exactly 1; find of every   *)
(* other key gives the same answer and the same value as before.  (Checked *)
(* under SpecInsert, where every step is an insert, so find(key) always    *)
(* holds the value of the last insert of key.)                             *)
(***************************************************************************)
C4_Upsert ==
    [][call'.op = "insert" =>
        LET key   == call'.key
            value == call'.value
        IN  /\ FindNext(key) # NULL
            /\ nodes'[FindNext(key)].key = key
            /\ nodes'[FindNext(key)].value = value
            /\ Find(key) # NULL =>
                  /\ treeSize' = treeSize
                  /\ root' = root
                  /\ nodes' = [nodes EXCEPT ![Find(key)].value = value]
            /\ Find(key) = NULL => treeSize' = treeSize + 1
            /\ \A other \in Key \ {key} :
                  /\ (Find(other) = NULL) <=> (FindNext(other) = NULL)
                  /\ Find(other) # NULL =>
                        nodes'[FindNext(other)].value = nodes[Find(other)].value
    ]_vars

\* an insert of a key that was present has replaced the value 0 by 1
C4_Witness ==
    /\ call.op = "insert"
    /\ call.ret = FALSE
    /\ call.value = 1
    /\ treeSize >= 2
    /\ Find(call.key) # root

(***************************************************************************)
(* C5.  erase(key) of a key that some node of the tree holds returns true, *)
(* decreases size() by exactly 1, and find(key) returns end afterwards.    *)
(***************************************************************************)
C5_ErasePresent ==
    [][(call'.op = "erase" /\ call'.key \in KeysHeld(nodes, root)) =>
        /\ call'.ret = TRUE
        /\ treeSize' = treeSize - 1
        /\ FindNext(call'.key) = NULL
    ]_vars

(***************************************************************************)
(* C6.  On a tree built by inserts, erase(key) removes exactly one entry   *)
(* and no other: every other key that find located before is located       *)
(* after, with the same value, and the entries of the nodes are the        *)
(* previous entries without the entry of key.  (Checked under              *)
(* SpecInsertErase.)                                                       *)
(***************************************************************************)
C6_EraseOnlyThatEntry ==
    [][call'.op = "erase" =>
        /\ \A other \in Key \ {call'.key} :
              Find(other) # NULL =>
                /\ FindNext(other) # NULL
                /\ nodes'[FindNext(other)].value = nodes[Find(other)].value
        /\ Entries(nodes', root') =
              {e \in Entries(nodes, root) : e[1] # call'.key}
    ]_vars

(***************************************************************************)
(* C7.  erase(key) of a key that no node holds returns false and leaves    *)
(* the tree as it was: size(), shape, and the key and value of every node. *)
(***************************************************************************)
C7_EraseAbsent ==
    [][(call'.op = "erase" /\ call'.key \notin KeysHeld(nodes, root)) =>
        /\ call'.ret = FALSE
        /\ treeSize' = treeSize
        /\ root' = root
        /\ nodes' = nodes
    ]_vars

\* an erase of a key held by no node of a tree of at least two nodes
C7_Witness ==
    /\ call.op = "erase"
    /\ call.ret = FALSE
    /\ call.key \notin KeysHeld(nodes, root)
    /\ treeSize >= 2

(***************************************************************************)
(* C8.  Bulk construction keeps exactly one node per distinct key of the   *)
(* input, with the value of the key's last occurrence in input order, and  *)
(* size() is the number of distinct keys.                                  *)
(***************************************************************************)
C8_BulkDeduplicates ==
    call.op = "bulk" =>
        /\ treeSize = Cardinality(InputKeys(call.v))
        /\ Cardinality(Subtree(nodes, root)) = treeSize
        /\ Subtree(nodes, root) = DOMAIN nodes
        /\ KeysHeld(nodes, root) = InputKeys(call.v)
        /\ \A key \in InputKeys(call.v) :
              \A n \in NodesWithKey(nodes, root, key) :
                  nodes[n].value = call.v[LastOccurrence(call.v, key)].second

\* an input with a key given twice, with two values
C8_Witness ==
    /\ call.op = "bulk"
    /\ Len(call.v) = 3
    /\ treeSize = 2
    /\ \E i, j \in 1..3 :
          i < j /\ call.v[i].first = call.v[j].first /\ call.v[i].second # call.v[j].second

(***************************************************************************)
(* C9.  After bulk construction find(key) is the node of every distinct    *)
(* key of the input, holding the value of its last occurrence, and end for *)
(* every key that is not in the input.                                     *)
(***************************************************************************)
C9_BulkFind ==
    call.op = "bulk" =>
        \A key \in Key :
            IF key \in InputKeys(call.v)
            THEN /\ Find(key) # NULL
                 /\ nodes[Find(key)].key = key
                 /\ nodes[Find(key)].value = call.v[LastOccurrence(call.v, key)].second
            ELSE Find(key) = NULL

(***************************************************************************)
(* C10.  Extremum correctness: on a non-empty tree findMax(d) is a node of *)
(* the tree whose d-th key component is >= that of every node, findMin(d)  *)
(* one whose d-th component is <= that of every node (d taken modulo       *)
(* KeySize); on an empty tree both are end.                                *)
(***************************************************************************)
C10_Extremum ==
    \A d \in 0..(2 * KeySize - 1) :
        LET c  == (d % KeySize) + 1
            mx == FindMax(d)
            mn == FindMin(d)
        IN  IF root = NULL
            THEN mx = NULL /\ mn = NULL
            ELSE /\ mx \in Subtree(nodes, root)
                 /\ mn \in Subtree(nodes, root)
                 /\ \A n \in Subtree(nodes, root) :
                       /\ nodes[n].key[c] <= nodes[mx].key[c]
                       /\ nodes[n].key[c] >= nodes[mn].key[c]

\* after an erase that removed a node, a tree whose extrema are not at the root
C10_Witness ==
    /\ call.op = "erase"
    /\ call.ret = TRUE
    /\ treeSize >= 2
    /\ FindMax(0) # root
    /\ FindMin(1) # root

(***************************************************************************)
(* C11.  erase(cursor) with a cursor that is not end removes the entry and *)
(* leaves a sound tree: size() is one less, find of the erased key is end, *)
(* and every link that can be followed from the root ends at a live node   *)
(* (the parent of an erased leaf no longer links to it); erase(end())      *)
(* returns end and changes nothing.  (Checked under SpecCursor.)           *)
(***************************************************************************)
C11_EraseCursorSound ==
    [][call'.op = "eraseIt" =>
        IF call'.it = end
        THEN /\ call'.ret = end
             /\ nodes' = nodes
             /\ root' = root
             /\ treeSize' = treeSize
        ELSE /\ treeSize' = treeSize - 1
             /\ Live(nodes', root')
             /\ FindNext(nodes[call'.it].key) = NULL
    ]_vars

(***************************************************************************)
(* C12.  The cursor that erase(cursor) returns is advanced past the erased *)
(* entry: it references the entry that followed the erased one in the      *)
(* traversal before the call, or is end when the erased entry was the last *)
(* one; it never references the entry that preceded the erased one.        *)
(* (Checked under SpecCursor.)                                             *)
(***************************************************************************)
C12_EraseCursorAdvances ==
    [][(call'.op = "eraseIt" /\ call'.it # end) =>
        LET it   == call'.it
            ret  == call'.ret
            succ == increment(nodes, it)
            pred == decrement(nodes, root, it)
        IN  /\ IF succ = end
               THEN ret = end
               ELSE /\ ret \in DOMAIN nodes'
                    /\ nodes'[ret].key = nodes[succ].key
                    /\ nodes'[ret].value = nodes[succ].value
            /\ (pred # it /\ ret \in DOMAIN nodes') =>
                  nodes'[ret].key # nodes[pred].key
    ]_vars

(***************************************************************************)
(* Traversals, for C13 and C14.                                            *)
(***************************************************************************)
\* the cursors met stepping forward from c until end(), at most fuel of them
RECURSIVE ForwardFrom(_, _, _)
ForwardFrom(h, c, fuel) ==
    IF c = end \/ fuel = 0 THEN <<>>
    ELSE <<c>> \o ForwardFrom(h, increment(h, c), fuel - 1)

\* begin() .. end(); longer than the heap if the walk does not reach end()
Forward(h, rt) == ForwardFrom(h, begin(h, rt), Cardinality(DOMAIN h) + 1)

\* the cursors reached by n steps backward from c
RECURSIVE BackwardFrom(_, _, _, _)
BackwardFrom(h, rt, c, n) ==
    IF n = 0 THEN <<>>
    ELSE LET p == decrement(h, rt, c)
         IN  <<p>> \o BackwardFrom(h, rt, p, n - 1)

\* the nodes reached from n over left links only
RECURSIVE LeftSpine(_, _)
LeftSpine(h, n) == IF n = NULL THEN {} ELSE {n} \cup LeftSpine(h, h[n].left)

\* left subtree, node, right subtree
RECURSIVE InOrder(_, _)
InOrder(h, n) ==
    IF n = NULL THEN <<>>
    ELSE InOrder(h, h[n].left) \o <<n>> \o InOrder(h, h[n].right)

(***************************************************************************)
(* C13.  Traversal round trip: stepping forward from begin() reaches end() *)
(* after some n steps, n steps backward from end() end at begin(), and the *)
(* backward sequence is the reverse of the forward one.                    *)
(***************************************************************************)
C13_RoundTrip ==
    LET f == Forward(nodes, root)
        n == Len(f)
        b == BackwardFrom(nodes, root, end, n)
    IN  /\ n <= Cardinality(DOMAIN nodes)
        /\ n > 0 => b[n] = begin(nodes, root)
        /\ b = Reverse(f)

\* after an erase, a tree with a node that has two children
C13_Witness ==
    /\ call.op = "erase"
    /\ treeSize >= 3
    /\ \E n \in DOMAIN nodes : nodes[n].left # NULL /\ nodes[n].right # NULL

(***************************************************************************)
(* C14.  Forward traversal is complete and in order: from begin() to end() *)
(* it takes exactly size() steps and visits every node once, in the        *)
(* in-order sequence (left subtree, node, right subtree) of the tree;      *)
(* begin() is the left-most node from the root, and end() on an empty      *)
(* tree.                                                                   *)
(***************************************************************************)
C14_ForwardInOrder ==
    LET f == Forward(nodes, root)
    IN  /\ f = InOrder(nodes, root)
        /\ Len(f) = treeSize
        /\ {f[i] : i \in 1..Len(f)} = Subtree(nodes, root)
        /\ \A i, j \in 1..Len(f) : f[i] = f[j] => i = j
        /\ root = NULL => begin(nodes, root) = end
        /\ root # NULL =>
              /\ begin(nodes, root) \in LeftSpine(nodes, root)
              /\ nodes[begin(nodes, root)].left = NULL

\* a tree whose first node is not the root and whose root has two children
C14_Witness ==
    /\ call.op = "insert"
    /\ treeSize >= 3
    /\ begin(nodes, root) # root
    /\ nodes[root].right # NULL

(***************************************************************************)
(* C15.  After any sequence of insert and erase(key) on an empty or bulk-  *)
(* constructed tree, size() is the number of nodes reachable from the root *)
(* over left/right links, and the root is absent exactly when size() is 0. *)
(***************************************************************************)
C15_SizeIsNodeCount ==
    /\ treeSize = Cardinality(Subtree(nodes, root))
    /\ (root = NULL) <=> (treeSize = 0)

\* an erase(key) that missed a key held by a node of a tree of three nodes
C15_Witness ==
    /\ call.op = "erase"
    /\ call.ret = FALSE
    /\ call.key \in {nodes[n].key : n \in Subtree(nodes, root)}
    /\ treeSize = 3

(***************************************************************************)
(* C16.  Copy construction and copy assignment give the target the shape,  *)
(* keys, values and size() of the source, in nodes of its own, and leave   *)
(* the source as it was; a later insert or erase on one of the two trees   *)
(* leaves the nodes, the root and size() of the other unchanged;           *)
(* assignment of a tree to itself changes nothing.  (Checked under         *)
(* SpecCopy.)                                                              *)
(***************************************************************************)
ThisKept ==
    /\ root' = root
    /\ treeSize' = treeSize
    /\ \A n \in Subtree(nodes, root) : n \in DOMAIN nodes' /\ nodes'[n] = nodes[n]

ThatKept ==
    /\ that' = that
    /\ \A n \in Subtree(nodes, that.root) : n \in DOMAIN nodes' /\ nodes'[n] = nodes[n]

NoSharedNode ==
    Subtree(nodes', root') \cap Subtree(nodes', that'.root) = {}

C16_DeepCopy ==
    [][/\ call'.op \in {"copy", "assignTo"} =>
            /\ that'.constructed
            /\ Shape(nodes', that'.root) = Shape(nodes, root)
            /\ that'.treeSize = treeSize
            /\ NoSharedNode
            /\ ThisKept
       /\ call'.op = "assignFrom" =>
            /\ Shape(nodes', root') = Shape(nodes, that.root)
            /\ treeSize' = that.treeSize
            /\ NoSharedNode
            /\ ThatKept
       /\ call'.op = "assignSelf" =>
            /\ nodes' = nodes
            /\ ThisKept
            /\ ThatKept
       /\ (call'.op \in {"insert", "erase"} /\ that.constructed) => ThatKept
       /\ call'.op \in {"insertThat", "eraseThat"} => ThisKept
    ]_vars

\* the copy has lost an entry that the source of three nodes still has
C16_Witness ==
    /\ call.op = "eraseThat"
    /\ call.ret = TRUE
    /\ treeSize = 3
    /\ that.treeSize = 2
    /\ Cardinality(DOMAIN nodes) = 5

(***************************************************************************)
(* C17.  Tie-break of the extremum queries, on a tree built by inserts:    *)
(* findMin(d) is the entry that wins the comparison on dimension d with    *)
(* the full-key tie-break against every entry, that is, of the entries     *)
(* with the minimal d-th component the one with the lexicographically      *)
(* smallest key; findMax(d) symmetrically the lexicographically greatest   *)
(* key of those with the maximal d-th component.  (Checked under           *)
(* SpecInsert.)                                                            *)
(***************************************************************************)
C17_ExtremumTieBreak ==
    \A d \in 0..(KeySize - 1) :
        root # NULL =>
            LET mn == nodes[FindMin(d)].key
                mx == nodes[FindMax(d)].key
            IN  \A n \in Subtree(nodes, root) :
                    LET k == nodes[n].key
                    IN  /\ \/ k[d + 1] > mn[d + 1]
                           \/ k[d + 1] = mn[d + 1] /\ ~TupleLess(k, mn)
                        /\ \/ k[d + 1] < mx[d + 1]
                           \/ k[d + 1] = mx[d + 1] /\ ~TupleLess(mx, k)

(***************************************************************************)
(* C18.  Bulk construction builds a balanced tree: a node whose subtree    *)
(* holds m nodes has floor((m-1)/2) of them in its left subtree and the    *)
(* other m-1-floor((m-1)/2) in its right subtree, so that the height of a  *)
(* tree of n nodes is ceil(log2(n+1)); the parent link of every child      *)
(* references the node it hangs from and the root has no parent.           *)
(***************************************************************************)
RECURSIVE Height(_, _)
Height(h, n) ==
    IF n = NULL THEN 0
    ELSE LET l == Height(h, h[n].left)
             r == Height(h, h[n].right)
         IN  1 + (IF l > r THEN l ELSE r)

C18_BulkBalanced ==
    call.op = "bulk" =>
        /\ \A n \in Subtree(nodes, root) :
              LET m == Cardinality(Subtree(nodes, n))
                  l == Cardinality(Subtree(nodes, nodes[n].left))
                  r == Cardinality(Subtree(nodes, nodes[n].right))
              IN  /\ l = (m - 1) \div 2
                  /\ r = m - 1 - ((m - 1) \div 2)
                  /\ nodes[n].left # NULL => nodes[nodes[n].left].parent = n
                  /\ nodes[n].right # NULL => nodes[nodes[n].right].parent = n
        /\ root # NULL => nodes[root].parent = NULL
        /\ LET n  == Cardinality(Subtree(nodes, root))
               ht == Height(nodes, root)
           IN  /\ 2 ^ ht >= n + 1
               /\ ht > 0 => 2 ^ (ht - 1) < n + 1

\* a tree of two nodes: the lower median is the root, the other key its right child
C18_Witness ==
    /\ call.op = "bulk"
    /\ Len(call.v) = 3
    /\ treeSize = 2
    /\ nodes[root].left = NULL
    /\ nodes[root].right # NULL

(***************************************************************************)
(* C19.  Key uniqueness: after any sequence of insert and erase(key) on an *)
(* empty or bulk-constructed tree no two nodes hold equal keys.            *)
(***************************************************************************)
C19_KeysUnique ==
    \A n1, n2 \in Subtree(nodes, root) :
        nodes[n1].key = nodes[n2].key => n1 = n2

=============================================================================
